---- MODULE Spec2Model ----
(***************************************************************************)
(* dem-gmrf: the batch pipeline of src/dem-gmrf_main.cpp (dem_gmrf_main,   *)
(* do_residuals_stats, main) as a state machine.                           *)
(*                                                                         *)
(* Coordinates and heights are finite numbers, modelled by integers.       *)
(* Grid resolutions are counted in half metres (the dummy grid of line 142 *)
(* has resolution 0.5).  The checkpoint ratio is the rational              *)
(* chkpts_ratio / RatioDen.  Indices are 0-based as in the source; TLA+    *)
(* sequences are 1-based, so element i of a C++ vector v is v[i + 1].      *)
(***************************************************************************)
EXTENDS Integers, Sequences, FiniteSets, TLC

(* ------------------------------ bounds -------------------------------- *)
\* Largest number of rows of the input table.
MaxN == 3
\* The checkpoint ratios tried are the multiples of 1/RatioDen from
\* -1/RatioDen to 1 + 1/RatioDen.
RatioDen == 4
\* Longest residual vector handed to do_residuals_stats on its own.
MaxR == 4
\* Residual values handed to do_residuals_stats on its own are 1..MaxResidual.
MaxResidual == 5

(* ------------------------- program constants -------------------------- *)
\* std::numeric_limits<double>::max(), lines 89-94: larger in magnitude than
\* every value of the model, and absorbing under the additions of the code.
DBL_MAX == 2 ^ 30
\* The threshold of line 101: heights with |z| >= 1e6 are "no data".
Z_NODATA == 1000000
\* const double BORDER = 10.0, line 106.
BORDER == 10
\* Default of --std-obs (0.20 m), line 46, in centimetres.
STD_OBS_DEFAULT == 20
\* size_t arithmetic wraps modulo 2^64; TLC's integers are 32 bits wide, so
\* the wrap is modelled modulo 2^20, far above every size of the model.
SIZE_MOD == 2 ^ 20

(* ------------------------------ inputs -------------------------------- *)
\* The rows a dataset is made of: x, y, z and the 4th column s (stddev, cm),
\* which is read only when the table has 4 columns.  The second row carries
\* a "no data" height, exactly at the threshold of line 101.
PointChoices ==
    { [x |-> -3, y |->  4, z |->        2, s |-> 10],
      [x |->  5, y |-> -2, z |-> -1000000, s |-> 30],
      [x |->  0, y |->  9, z |->       -7, s |-> 10] }

Datasets == UNION { [1..n -> PointChoices] : n \in 1..MaxN }

\* An input file: missing, empty (0 rows, 0 columns) or a table of 2..4 columns.
InputFiles ==
    { [exists |-> FALSE, rows |-> <<>>, cols |-> 0],
      [exists |-> TRUE,  rows |-> <<>>, cols |-> 0] }
    \cup { [exists |-> TRUE, rows |-> d, cols |-> c] : d \in Datasets, c \in 2..4 }

RatioVals == -1 .. (RatioDen + 1)
ResolutionVals == {-2, 0, 2}
Policies == {"gimNearest", "gimBilinear"}
\* Heights the solved field may predict.
PredVals == {0, 1}

(* ------------------------------ helpers ------------------------------- *)
Abs(v) == IF v < 0 THEN -v ELSE v

\* mrpt::utils::keep_max / keep_min, lines 99-102.
keep_max(var, val) == IF val > var THEN val ELSE var
keep_min(var, val) == IF val < var THEN val ELSE var

\* Double addition on the values of the model: +-DBL_MAX absorbs a border.
DblAdd(a, b) == IF Abs(a) = DBL_MAX THEN a ELSE a + b

\* Mutant of ZIsData: the test without std::abs.
ZIsData_noabs(z) == z < Z_NODATA

\* Line 101: the test that lets pt.z into the z extent.
ZIsData(z) == Abs(z) < Z_NODATA

\* Lines 107-109: "min -= BORDER; max += BORDER".
ExpandMin(v) == DblAdd(v, -BORDER)
ExpandMax(v) == DblAdd(v, BORDER)

\* Mutant of RatioInRange: the upper limit is not tested.
RatioInRange_noupper(r) == r >= 0

\* Line 122: ASSERT_(chkpts_ratio>=0.0 && chkpts_ratio<=1.0).
RatioInRange(r) == r >= 0 /\ r <= RatioDen

\* Mutant of linspace: the step is (last - first) / count.
linspace_bad(first, last, count) ==
    IF count < 2
    THEN [j \in 1..count |-> last]
    ELSE [j \in 1..count |-> first + (j - 1) * ((last - first) \div count)]

\* mrpt::math::linspace(first,last,count,out) on size_t, line 126.
linspace(first, last, count) ==
    IF count < 2
    THEN [j \in 1..count |-> last]
    ELSE [j \in 1..count |-> first + (j - 1) * ((last - first) \div (count - 1))]

\* std::iter_swap inside std::random_shuffle, line 129 (0-based a, b).
iter_swap(v, a, b) == [v EXCEPT ![a + 1] = v[b + 1], ![b + 1] = v[a + 1]]

\* mrpt::utils::round(chkpts_ratio * N), line 130: the nearest integer of
\* num/den; a tie goes to the even neighbour (SSE2 / lrint builds) or away
\* from zero (the portable build).
RoundHalfAway(num, den) ==
    IF num >= 0 THEN (2 * num + den) \div (2 * den)
    ELSE -((2 * (-num) + den) \div (2 * den))
RoundHalfEven(num, den) ==
    LET f == num \div den
        twice == 2 * (num - f * den)
    IN  IF twice < den THEN f
        ELSE IF twice > den THEN f + 1
        ELSE IF f % 2 = 0 THEN f ELSE f + 1
\* Mutant of RoundOutcomes: the product is truncated, not rounded.
RoundOutcomes_trunc(num, den) == { num \div den }
RoundOutcomes(num, den) == { RoundHalfAway(num, den), RoundHalfEven(num, den) }

\* Conversion of an int to size_t, and size_t subtraction (lines 130-131).
ToSizeT(v) == v % SIZE_MOD
SizeSub(a, b) == (a - b) % SIZE_MOD

(* ------------------------------- state -------------------------------- *)
VARIABLES
    pc,             \* position in dem_gmrf_main / the standalone stats call
    in_file,        \* the input file (arg_in_file) as found on disk
    chkpts_ratio,   \* arg_checkpoints_ratio, in units of 1/RatioDen
    RESOLUTION,     \* arg_dem_resolution, in half metres
    raw_xyz,        \* the loaded table (line 71)
    nCols,          \* line 73
    bbox,           \* minx, maxx, miny, maxy, minz, maxz (lines 89-94)
    k,              \* the running loop counter (i or k of the source)
    pts_indices,    \* line 125
    N_chk_pts,      \* line 130
    N_insert_pts,   \* line 131
    dem_map,        \* the estimator: extent, readings, solves, field, queries
    residuals_NN,   \* line 203
    residuals_Bi,   \* line 203
    residuals_NN_stats, \* line 226
    residuals_Bi_stats, \* line 226
    stats_hdr,      \* line 225
    files,          \* suffixes of the output files written so far
    r,              \* do_residuals_stats called on its own: its argument r
    stats,          \*   its in-out argument stats
    file_hdr        \*   its out argument file_hdr

vars == << pc, in_file, chkpts_ratio, RESOLUTION, raw_xyz, nCols, bbox, k,
           pts_indices, N_chk_pts, N_insert_pts, dem_map, residuals_NN,
           residuals_Bi, residuals_NN_stats, residuals_Bi_stats, stats_hdr,
           files, r, stats, file_hdr >>

pipe_vars == << in_file, chkpts_ratio, RESOLUTION, raw_xyz, nCols, bbox, k,
                pts_indices, N_chk_pts, N_insert_pts, dem_map, residuals_NN,
                residuals_Bi, residuals_NN_stats, residuals_Bi_stats,
                stats_hdr, files >>

stats_vars == << r, stats, file_hdr >>

\* const size_t N = raw_xyz.rows(), line 73.
N == Len(raw_xyz)

\* The estimator before line 142 constructs it.
NoMap == [built |-> FALSE, x_min |-> 0, x_max |-> 0, y_min |-> 0, y_max |-> 0,
          resolution |-> 0, readings |-> <<>>, updates |-> 0,
          field |-> [p \in Policies |-> 0], queries |-> <<>>,
          GMRF_lambdaPrior |-> 0, GMRF_lambdaObs |-> 0,
          GMRF_skip_variance |-> FALSE]

NoBBox == [minx |-> 0, maxx |-> 0, miny |-> 0, maxy |-> 0, minz |-> 0, maxz |-> 0]

Init ==
    /\ pc = "load"
    /\ in_file \in InputFiles
    /\ chkpts_ratio \in RatioVals
    /\ RESOLUTION \in ResolutionVals
    /\ raw_xyz = <<>>
    /\ nCols = 0
    /\ bbox = NoBBox
    /\ k = 0
    /\ pts_indices = <<>>
    /\ N_chk_pts = 0
    /\ N_insert_pts = 0
    /\ dem_map = NoMap
    /\ residuals_NN = <<>>
    /\ residuals_Bi = <<>>
    /\ residuals_NN_stats = <<>>
    /\ residuals_Bi_stats = <<>>
    /\ stats_hdr = ""
    /\ files = {}
    /\ r = <<>>
    /\ stats = <<>>
    /\ file_hdr = ""

\* An exception leaves dem_gmrf_main; main catches it and returns 1
\* (lines 314-319).
Throw == pc' = "return_1"

(* ------------------------- [1] load dataset --------------------------- *)
\* Lines 64-77: ASSERT_FILE_EXISTS_, loadFromTextFile, ASSERT_(nCols>=3).
Stage1_Load ==
    /\ pc = "load"
    /\ IF ~in_file.exists
       THEN /\ Throw
            /\ UNCHANGED << raw_xyz, nCols >>
       ELSE /\ raw_xyz' = in_file.rows
            /\ nCols' = in_file.cols
            /\ IF in_file.cols >= 3 THEN pc' = "bbox_init" ELSE Throw
    /\ UNCHANGED << in_file, chkpts_ratio, RESOLUTION, bbox, k, pts_indices,
                    N_chk_pts, N_insert_pts, dem_map, residuals_NN,
                    residuals_Bi, residuals_NN_stats, residuals_Bi_stats,
                    stats_hdr, files, stats_vars >>

(* ------------------------- [2] bounding box --------------------------- *)
\* Lines 89-94.
Stage2_BBoxInit ==
    /\ pc = "bbox_init"
    /\ bbox' = [minx |-> DBL_MAX, miny |-> DBL_MAX, minz |-> DBL_MAX,
                maxx |-> -DBL_MAX, maxy |-> -DBL_MAX, maxz |-> -DBL_MAX]
    /\ k' = 0
    /\ pc' = "bbox_scan"
    /\ UNCHANGED << in_file, chkpts_ratio, RESOLUTION, raw_xyz, nCols,
                    pts_indices, N_chk_pts, N_insert_pts, dem_map,
                    residuals_NN, residuals_Bi, residuals_NN_stats,
                    residuals_Bi_stats, stats_hdr, files, stats_vars >>

\* The body of the loop of lines 96-104 for the point pt.
BBoxScanPoint(b, pt) ==
    [ maxx |-> keep_max(b.maxx, pt.x), minx |-> keep_min(b.minx, pt.x),
      maxy |-> keep_max(b.maxy, pt.y), miny |-> keep_min(b.miny, pt.y),
      maxz |-> IF ZIsData(pt.z) THEN keep_max(b.maxz, pt.z) ELSE b.maxz,
      minz |-> IF ZIsData(pt.z) THEN keep_min(b.minz, pt.z) ELSE b.minz ]

\* One iteration of "for (size_t i=0;i<N;i++)", lines 96-104.
Stage2_BBoxStep ==
    /\ pc = "bbox_scan"
    /\ k < N
    /\ bbox' = BBoxScanPoint(bbox, raw_xyz[k + 1])
    /\ k' = k + 1
    /\ UNCHANGED << pc, in_file, chkpts_ratio, RESOLUTION, raw_xyz, nCols,
                    pts_indices, N_chk_pts, N_insert_pts, dem_map,
                    residuals_NN, residuals_Bi, residuals_NN_stats,
                    residuals_Bi_stats, stats_hdr, files, stats_vars >>

\* Lines 106-109.
BBoxBorder(b) ==
    [ minx |-> ExpandMin(b.minx), maxx |-> ExpandMax(b.maxx),
      miny |-> ExpandMin(b.miny), maxy |-> ExpandMax(b.maxy),
      minz |-> ExpandMin(b.minz), maxz |-> ExpandMax(b.maxz) ]

\* Loop exit and lines 106-109.
Stage2_BBoxBorder ==
    /\ pc = "bbox_scan"
    /\ ~(k < N)
    /\ bbox' = BBoxBorder(bbox)
    /\ pc' = "check_ratio"
    /\ UNCHANGED << in_file, chkpts_ratio, RESOLUTION, raw_xyz, nCols, k,
                    pts_indices, N_chk_pts, N_insert_pts, dem_map,
                    residuals_NN, residuals_Bi, residuals_NN_stats,
                    residuals_Bi_stats, stats_hdr, files, stats_vars >>

(* ---------------------- [3] pick checkpoints -------------------------- *)
\* Lines 121-122: the ratio is read and asserted to lie in [0,1].
Stage3_CheckRatio ==
    /\ pc = "check_ratio"
    /\ IF RatioInRange(chkpts_ratio) THEN pc' = "indices" ELSE Throw
    /\ UNCHANGED << pipe_vars, stats_vars >>

\* Lines 125-128: the identity index list, and the start of
\* std::random_shuffle, whose loop runs i from first+1 to last.
Stage3_Indices ==
    /\ pc = "indices"
    /\ pts_indices' = linspace(0, N - 1, N)
    /\ k' = 1
    /\ pc' = "shuffle"
    /\ UNCHANGED << in_file, chkpts_ratio, RESOLUTION, raw_xyz, nCols, bbox,
                    N_chk_pts, N_insert_pts, dem_map, residuals_NN,
                    residuals_Bi, residuals_NN_stats, residuals_Bi_stats,
                    stats_hdr, files, stats_vars >>

\* Line 129, one iteration of std::random_shuffle: element i is swapped
\* with element rand() % (i + 1).
Stage3_ShuffleStep ==
    /\ pc = "shuffle"
    /\ k < N
    /\ \E j \in 0..k : pts_indices' = iter_swap(pts_indices, k, j)
    /\ k' = k + 1
    /\ UNCHANGED << pc, in_file, chkpts_ratio, RESOLUTION, raw_xyz, nCols,
                    bbox, N_chk_pts, N_insert_pts, dem_map, residuals_NN,
                    residuals_Bi, residuals_NN_stats, residuals_Bi_stats,
                    stats_hdr, files, stats_vars >>

\* Line 130: the values N_chk_pts may take.
ChkPtsOutcomes(ratio, n) == { ToSizeT(c) : c \in RoundOutcomes(ratio * n, RatioDen) }

\* Line 131.
InsertPts(n, nchk) == SizeSub(n, nchk)

\* End of the shuffle and lines 130-131.
Stage3_Split ==
    /\ pc = "shuffle"
    /\ ~(k < N)
    /\ \E c \in ChkPtsOutcomes(chkpts_ratio, N) :
          /\ N_chk_pts' = c
          /\ N_insert_pts' = InsertPts(N, c)
    /\ pc' = "map_init"
    /\ UNCHANGED << in_file, chkpts_ratio, RESOLUTION, raw_xyz, nCols, bbox,
                    k, pts_indices, dem_map, residuals_NN, residuals_Bi,
                    residuals_NN_stats, residuals_Bi_stats, stats_hdr, files,
                    stats_vars >>

(* ------------------------ [4] estimator set-up ------------------------ *)
\* Default of --std-prior (1.0 m), line 45, in centimetres.
STD_PRIOR_DEFAULT == 100

\* 1.0 / square(stddev), lines 145-146, for a stddev in centimetres.
Lambda(std_cm) == (100 * 100) \div (std_cm * std_cm)

\* Lines 142-147: the estimator on its dummy extent [0,1]x[0,1] at 0.5 m,
\* with run_first_map_estimation_now = false, and its parameters.
DummyMap ==
    [built |-> TRUE, x_min |-> 0, x_max |-> 1, y_min |-> 0, y_max |-> 1,
     resolution |-> 1, readings |-> <<>>, updates |-> 0,
     field |-> [p \in Policies |-> 0], queries |-> <<>>,
     GMRF_lambdaPrior |-> Lambda(STD_PRIOR_DEFAULT),
     GMRF_lambdaObs |-> Lambda(STD_OBS_DEFAULT),
     GMRF_skip_variance |-> FALSE]

\* Lines 150-153: dem_map.setSize(minx,maxx,miny,maxy,RESOLUTION,&def).
setSize(m, b, res) ==
    [m EXCEPT !.x_min = b.minx, !.x_max = b.maxx,
              !.y_min = b.miny, !.y_max = b.maxy, !.resolution = res]

\* Lines 140-153.  The pipeline itself does not test RESOLUTION; what the
\* estimator does with a non-positive one is not code of this file, so both
\* outcomes (it throws, it resizes) are kept.
Stage4_MapInit ==
    /\ pc = "map_init"
    /\ \/ /\ dem_map' = setSize(DummyMap, bbox, RESOLUTION)
          /\ k' = 0
          /\ pc' = "insert"
       \/ /\ RESOLUTION <= 0
          /\ dem_map' = DummyMap
          /\ k' = k
          /\ Throw
    /\ UNCHANGED << in_file, chkpts_ratio, RESOLUTION, raw_xyz, nCols, bbox,
                    pts_indices, N_chk_pts, N_insert_pts, residuals_NN,
                    residuals_Bi, residuals_NN_stats, residuals_Bi_stats,
                    stats_hdr, files, stats_vars >>

(* ------------------------- [5] insert points -------------------------- *)
\* Mutant of InsertLoopBound: the loop runs over all N points.
InsertLoopBound_all == N

\* "k<N_insert_pts", line 165.
InsertLoopBound == N_insert_pts

\* Line 167: the row inserted at iteration kk.
InsertRow(kk) == pts_indices[kk + 1]

\* Mutant of UpdateNowArg: every insertion asks for an immediate update.
UpdateNowArg_true == TRUE

\* Line 181: the updateNow argument of every insertion.
UpdateNowArg == FALSE

\* Lines 170-176.
ReadingStddev(i) ==
    IF nCols = 3 THEN STD_OBS_DEFAULT ELSE raw_xyz[i + 1].s

\* Lines 178-183: the reading recorded by insertIndividualReading; row is
\* the row of raw_xyz it was taken from.
Reading(i) ==
    [row |-> i, z |-> raw_xyz[i + 1].z, x |-> raw_xyz[i + 1].x,
     y |-> raw_xyz[i + 1].y, update_now |-> UpdateNowArg,
     time_invariant |-> TRUE, stddev |-> ReadingStddev(i)]

\* One iteration of the loop of lines 165-184.
Stage5_InsertStep ==
    /\ pc = "insert"
    /\ k < InsertLoopBound
    /\ dem_map' = [dem_map EXCEPT !.readings = Append(@, Reading(InsertRow(k)))]
    /\ k' = k + 1
    /\ UNCHANGED << pc, in_file, chkpts_ratio, RESOLUTION, raw_xyz, nCols,
                    bbox, pts_indices, N_chk_pts, N_insert_pts, residuals_NN,
                    residuals_Bi, residuals_NN_stats, residuals_Bi_stats,
                    stats_hdr, files, stats_vars >>

Stage5_InsertDone ==
    /\ pc = "insert"
    /\ ~(k < InsertLoopBound)
    /\ pc' = "solve"
    /\ UNCHANGED << pipe_vars, stats_vars >>

(* ----------------------------- [6] solve ------------------------------ *)
\* Line 192: dem_map.updateMapEstimation().  The solved field is whatever
\* the estimator computes; each policy's prediction is one of PredVals.
Stage6_Solve ==
    /\ pc = "solve"
    /\ \E f \in [Policies -> PredVals] :
          dem_map' = [dem_map EXCEPT !.updates = @ + 1, !.field = f]
    /\ pc' = "chk_test"
    /\ UNCHANGED << in_file, chkpts_ratio, RESOLUTION, raw_xyz, nCols, bbox,
                    k, pts_indices, N_chk_pts, N_insert_pts, residuals_NN,
                    residuals_Bi, residuals_NN_stats, residuals_Bi_stats,
                    stats_hdr, files, stats_vars >>

(* ------------------------ [7] eval checkpoints ------------------------ *)
\* Mutant of HasCheckpoints: stage [7] runs unconditionally.
HasCheckpoints_always == TRUE

\* "if (N_chk_pts)", line 198.
HasCheckpoints == N_chk_pts # 0

\* Lines 198-203: the test, and the two residual vectors of N_chk_pts
\* entries.  Eigen leaves their entries unset; each is written (lines 212,
\* 217) before it is read, and the model holds 0 until then.
Stage7_Test ==
    /\ pc = "chk_test"
    /\ IF HasCheckpoints
       THEN /\ residuals_NN' = [j \in 1..N_chk_pts |-> 0]
            /\ residuals_Bi' = [j \in 1..N_chk_pts |-> 0]
            /\ k' = 0
            /\ pc' = "eval"
       ELSE /\ UNCHANGED << residuals_NN, residuals_Bi, k >>
            /\ pc' = "save_points"
    /\ UNCHANGED << in_file, chkpts_ratio, RESOLUTION, raw_xyz, nCols, bbox,
                    pts_indices, N_chk_pts, N_insert_pts, dem_map,
                    residuals_NN_stats, residuals_Bi_stats, stats_hdr, files,
                    stats_vars >>

\* Mutant of ChkRow: the offset N_insert_pts is forgotten.
ChkRow_nooffset(kk) == pts_indices[kk + 1]

\* Line 207: the row evaluated at iteration kk.
ChkRow(kk) == pts_indices[kk + N_insert_pts + 1]

\* predictMeasurement(x, y, z, std, false, policy), lines 211 and 216: the
\* query as the estimator receives it and the height it answers.
Query(i, policy) ==
    [row |-> i, x |-> raw_xyz[i + 1].x, y |-> raw_xyz[i + 1].y,
     policy |-> policy, z |-> dem_map.field[policy]]

\* Lines 212 and 217.
Residual(i, q) == raw_xyz[i + 1].z - q.z

\* One iteration of the loop of lines 205-218.
Stage7_EvalStep ==
    /\ pc = "eval"
    /\ k < N_chk_pts
    /\ LET i    == ChkRow(k)
           q_NN == Query(i, "gimNearest")
           q_Bi == Query(i, "gimBilinear")
       IN  /\ dem_map' = [dem_map EXCEPT !.queries = @ \o << q_NN, q_Bi >>]
           /\ residuals_NN' = [residuals_NN EXCEPT ![k + 1] = Residual(i, q_NN)]
           /\ residuals_Bi' = [residuals_Bi EXCEPT ![k + 1] = Residual(i, q_Bi)]
    /\ k' = k + 1
    /\ UNCHANGED << pc, in_file, chkpts_ratio, RESOLUTION, raw_xyz, nCols,
                    bbox, pts_indices, N_chk_pts, N_insert_pts,
                    residuals_NN_stats, residuals_Bi_stats, stats_hdr, files,
                    stats_vars >>

(* ------------------------ do_residuals_stats -------------------------- *)
\* A statistic is the rational num/den (Ratio) or the root mean square
\* sqrt((t1^2 + ... + tn^2) / den) of the terms t (RootMeanSq); the squares
\* are kept unevaluated.
Ratio(n, d) == [num |-> n, den |-> d]
Num(v) == Ratio(v, 1)
RootMeanSq(t, d) == [squares_of |-> t, den |-> d]

RECURSIVE SeqSum(_)
SeqSum(v) == IF v = <<>> THEN 0 ELSE Head(v) + SeqSum(Tail(v))

\* r.maxCoeff() and r.minCoeff(), lines 298-299.
RECURSIVE maxCoeff(_)
maxCoeff(v) ==
    IF Len(v) = 1 THEN v[1] ELSE keep_max(maxCoeff(Tail(v)), Head(v))
RECURSIVE minCoeff(_)
minCoeff(v) ==
    IF Len(v) = 1 THEN v[1] ELSE keep_min(minCoeff(Tail(v)), Head(v))

\* mrpt::math::meanAndStd(r, mean, std), line 301: the mean, and the
\* unbiased standard deviation sqrt(sum((x - mean)^2) / (n - 1)), which is
\* 0 below two elements; with x - mean = (n*x - sum) / n.
Mean(v) == Ratio(SeqSum(v), Len(v))
Std(v) ==
    LET n == Len(v)
    IN  IF n < 2 THEN Num(0)
        ELSE RootMeanSq([j \in 1..n |-> n * v[j] - SeqSum(v)], n * n * (n - 1))

\* Line 303: std::sqrt(r.array().square().sum() / N).
Rmse(v) == RootMeanSq(v, Len(v))

\* Mutant of MedianPos: the lower median position (N-1)/2.
MedianPos_lower(n) == (n - 1) \div 2

\* "N/2", lines 307-308.
MedianPos(n) == n \div 2

\* Lines 305-308: v is a copy of r; nth_element(v.begin(), v.begin()+n,
\* v.end()) rearranges it so that no element before position n is greater
\* than v[n] and none after it is smaller; the result is v[n], the only
\* value that can stand there.
nth_element(v, n) ==
    CHOOSE m \in { v[j] : j \in 1..Len(v) } :
        /\ Cardinality({ j \in 1..Len(v) : v[j] < m }) <= n
        /\ Cardinality({ j \in 1..Len(v) : v[j] <= m }) > n

\* What a fresh coefficient of an Eigen vector may hold: resize() does not
\* initialise.
UnsetVals == { Num(0), Num(7) }

\* stats.resize(6), line 295: a vector that already has 6 coefficients is
\* left alone; any other is reallocated and its coefficients are unset.
Resize6(s) == IF Len(s) = 6 THEN { s } ELSE [1..6 -> UnsetVals]

\* Line 292.
StatsHeader == "% MAX_ABS_ERR   MIN_ABS_ERR   AVERAGE_ERR   STD_DEV   RMSE    MEDIAN\n"

\* Lines 290-309: the values stats may hold on return, for the argument rv
\* and the vector s passed as stats.
do_residuals_stats(rv, s) ==
    IF Len(rv) = 0
    THEN Resize6(s)
    ELSE { << Num(maxCoeff(rv)), Num(minCoeff(rv)), Mean(rv), Std(rv),
              Rmse(rv), Num(nth_element(rv, MedianPos(Len(rv)))) >> }

\* Lines 220-222: the two residual files.
Stage7_SaveResiduals ==
    /\ pc = "eval"
    /\ ~(k < N_chk_pts)
    /\ files' = files \cup { "_chkpt_residuals_NN.txt", "_chkpt_residuals_Bi.txt" }
    /\ pc' = "stats"
    /\ UNCHANGED << in_file, chkpts_ratio, RESOLUTION, raw_xyz, nCols, bbox,
                    k, pts_indices, N_chk_pts, N_insert_pts, dem_map,
                    residuals_NN, residuals_Bi, residuals_NN_stats,
                    residuals_Bi_stats, stats_hdr, stats_vars >>

\* Lines 224-231: both statistics vectors (default-constructed, so empty,
\* before the calls) and their two files.
Stage7_Stats ==
    /\ pc = "stats"
    /\ residuals_NN_stats' \in do_residuals_stats(residuals_NN, <<>>)
    /\ residuals_Bi_stats' \in do_residuals_stats(residuals_Bi, <<>>)
    /\ stats_hdr' = StatsHeader
    /\ files' = files \cup { "_chkpt_residuals_NN_stats.txt",
                             "_chkpt_residuals_Bi_stats.txt" }
    /\ pc' = "save_points"
    /\ UNCHANGED << in_file, chkpts_ratio, RESOLUTION, raw_xyz, nCols, bbox,
                    k, pts_indices, N_chk_pts, N_insert_pts, dem_map,
                    residuals_NN, residuals_Bi, stats_vars >>

(* ------------------------- [9] output files --------------------------- *)
\* Lines 237-257: the two point files and the two map artifacts.
Stage9_SavePoints ==
    /\ pc = "save_points"
    /\ files' = files \cup { "_pts_map.txt", "_pts_chk.txt", "_grmf", "_grmf_draw.m" }
    /\ pc' = "return_0"
    /\ UNCHANGED << in_file, chkpts_ratio, RESOLUTION, raw_xyz, nCols, bbox,
                    k, pts_indices, N_chk_pts, N_insert_pts, dem_map,
                    residuals_NN, residuals_Bi, residuals_NN_stats,
                    residuals_Bi_stats, stats_hdr, stats_vars >>

Next ==
    \/ Stage1_Load
    \/ Stage2_BBoxInit
    \/ Stage2_BBoxStep
    \/ Stage2_BBoxBorder
    \/ Stage3_CheckRatio
    \/ Stage3_Indices
    \/ Stage3_ShuffleStep
    \/ Stage3_Split
    \/ Stage4_MapInit
    \/ Stage5_InsertStep
    \/ Stage5_InsertDone
    \/ Stage6_Solve
    \/ Stage7_Test
    \/ Stage7_EvalStep
    \/ Stage7_SaveResiduals
    \/ Stage7_Stats
    \/ Stage9_SavePoints

Spec == Init /\ [][Next]_vars

(* -------------- do_residuals_stats called on its own ------------------ *)
ResidualVectors == UNION { [1..n -> 1..MaxResidual] : n \in 0..MaxR }

\* What the caller's stats vector may hold before the call: six entries,
\* none (default-constructed, as at line 226), or three.
StatsBefore ==
    << [j \in 1..6 |-> Num(j)], <<>>, [j \in 1..3 |-> Num(j)] >>

InitStats ==
    /\ pc = "stats_call"
    /\ r \in ResidualVectors
    /\ \E b \in 1..Len(StatsBefore) : stats = StatsBefore[b]
    /\ file_hdr = ""
    /\ in_file = [exists |-> FALSE, rows |-> <<>>, cols |-> 0]
    /\ chkpts_ratio = 0
    /\ RESOLUTION = 2
    /\ raw_xyz = <<>>
    /\ nCols = 0
    /\ bbox = NoBBox
    /\ k = 0
    /\ pts_indices = <<>>
    /\ N_chk_pts = 0
    /\ N_insert_pts = 0
    /\ dem_map = NoMap
    /\ residuals_NN = <<>>
    /\ residuals_Bi = <<>>
    /\ residuals_NN_stats = <<>>
    /\ residuals_Bi_stats = <<>>
    /\ stats_hdr = ""
    /\ files = {}

\* One call do_residuals_stats(r, stats, file_hdr), lines 290-309.
StatsCall ==
    /\ pc = "stats_call"
    /\ stats' \in do_residuals_stats(r, stats)
    /\ file_hdr' = StatsHeader
    /\ pc' = "stats_returned"
    /\ UNCHANGED << r, pipe_vars >>

NextStats == StatsCall

SpecStats == InitStats /\ [][NextStats]_vars

(* ====================== properties of the pipeline ==================== *)
\* The bounding-box stage (lines 89-109) is over.
BBoxDone ==
    \/ pc \in { "check_ratio", "indices", "shuffle", "map_init", "insert",
                "solve", "chk_test", "eval", "stats", "save_points", "return_0" }
    \/ pc = "return_1" /\ bbox # NoBBox

\* Lines 125-131 are over: the shuffle is finished and both sizes are set.
Partitioned ==
    \/ pc \in { "map_init", "insert", "solve", "chk_test", "eval", "stats",
                "save_points", "return_0" }
    \/ pc = "return_1" /\ dem_map.built

\* The loop of lines 165-184 is over.
InsertionDone ==
    pc \in { "solve", "chk_test", "eval", "stats", "save_points", "return_0" }

\* Stage [7] (lines 198-235) is over.
ValidationDone == pc \in { "save_points", "return_0" }

InsertionSet == { pts_indices[j] : j \in 1..N_insert_pts }
CheckpointSet == { pts_indices[N_insert_pts + j] : j \in 1..N_chk_pts }

SetMin(S) == CHOOSE m \in S : \A t \in S : m <= t
SetMax(S) == CHOOSE m \in S : \A t \in S : m >= t

ValidationFiles ==
    { "_chkpt_residuals_NN.txt", "_chkpt_residuals_Bi.txt",
      "_chkpt_residuals_NN_stats.txt", "_chkpt_residuals_Bi_stats.txt" }
OtherFiles == { "_pts_map.txt", "_pts_chk.txt", "_grmf", "_grmf_draw.m" }

\* C1: updateMapEstimation is called at most once in any run and exactly
\* once in every run that gets past the insertion loop; when it is called
\* every insertion-set observation has been recorded with updateNow = false,
\* nothing is inserted afterwards, and no prediction is made before it.
C1_SolveOnceBetweenInsertAndPredict ==
    /\ dem_map.updates \in {0, 1}
    /\ \A j \in 1..Len(dem_map.readings) : dem_map.readings[j].update_now = FALSE
    /\ dem_map.updates = 0 => dem_map.queries = <<>>
    /\ dem_map.updates = 1 =>
          /\ Partitioned
          /\ Len(dem_map.readings) = N_insert_pts
    /\ pc \in { "load", "bbox_init", "bbox_scan", "check_ratio", "indices",
                "shuffle", "map_init", "insert", "solve" } => dem_map.updates = 0
    /\ pc \in { "chk_test", "eval", "stats", "save_points", "return_0" }
          => dem_map.updates = 1

C1_Witness ==
    /\ pc = "return_0"
    /\ dem_map.updates = 1
    /\ Len(dem_map.readings) = 2
    /\ Len(dem_map.queries) = 2

\* C2: nothing is inserted before the shuffle and the two sizes are final;
\* reading j is row pts_indices[j - 1] of the table, so no row of the
\* checkpoint set is ever inserted, and once the insertion loop is over the
\* rows inserted are exactly those of the insertion set, each once.
C2_CheckpointsNeverInserted ==
    /\ ~Partitioned => dem_map.readings = <<>>
    /\ pc = "map_init" => dem_map.readings = <<>>
    /\ dem_map.readings # <<>> =>
          /\ Len(dem_map.readings) <= N_insert_pts
          /\ N_insert_pts + N_chk_pts = Len(pts_indices)
          /\ \A j \in 1..Len(dem_map.readings) :
                LET rd == dem_map.readings[j]
                IN  /\ rd.row = pts_indices[j]
                    /\ rd.row \notin CheckpointSet
                    /\ rd.x = raw_xyz[rd.row + 1].x
                    /\ rd.y = raw_xyz[rd.row + 1].y
                    /\ rd.z = raw_xyz[rd.row + 1].z
    /\ InsertionDone =>
          /\ N_insert_pts + N_chk_pts = Len(pts_indices)
          /\ \A i \in InsertionSet :
                Cardinality({ j \in 1..Len(dem_map.readings) :
                                dem_map.readings[j].row = i }) = 1
          /\ \A i \in CheckpointSet :
                Cardinality({ j \in 1..Len(dem_map.readings) :
                                dem_map.readings[j].row = i }) = 0
          /\ Len(dem_map.readings) = Cardinality(InsertionSet)

C2_Witness ==
    /\ pc = "return_0"
    /\ N = 3
    /\ N_chk_pts = 1
    /\ Len(dem_map.readings) = 2
    /\ pts_indices # << 0, 1, 2 >>

\* C3: once the partition is made (N >= 1, ratio in [0,1], any shuffle),
\* the first N - Nchk entries of pts_indices and the trailing Nchk entries
\* are disjoint, together they are exactly {0, ..., N-1}, and no index is
\* duplicated.
C3_PartitionDisjointExhaustive ==
    Partitioned =>
        /\ N >= 1
        /\ Len(pts_indices) = N
        /\ N_insert_pts + N_chk_pts = N
        /\ InsertionSet \cap CheckpointSet = {}
        /\ InsertionSet \cup CheckpointSet = 0..(N - 1)
        /\ Cardinality(InsertionSet) = N_insert_pts
        /\ Cardinality(CheckpointSet) = N_chk_pts

C3_Witness ==
    /\ Partitioned
    /\ pts_indices = << 2, 0, 1 >>
    /\ N_chk_pts = 1
    /\ CheckpointSet = { 1 }

\* C4: once the partition is made, N_insert_pts + N_chk_pts = N, both lie
\* in 0..N (no wrap-around), and N_chk_pts is an integer nearest to
\* ratio * N, i.e. |N_chk_pts - ratio * N| <= 1/2.
C4_PartitionSizes ==
    Partitioned =>
        /\ N >= 1
        /\ chkpts_ratio >= 0 /\ chkpts_ratio <= RatioDen
        /\ N_insert_pts + N_chk_pts = N
        /\ N_chk_pts >= 0 /\ N_chk_pts <= N
        /\ N_insert_pts >= 0 /\ N_insert_pts <= N
        /\ 2 * Abs(RatioDen * N_chk_pts - chkpts_ratio * N) <= RatioDen

C4_Witness ==
    /\ Partitioned
    /\ N = 3
    /\ 4 * chkpts_ratio = 3 * RatioDen
    /\ N_chk_pts = 2
    /\ N_insert_pts = 1

\* C5: with ratio = 0 the checkpoint set is empty, no prediction is ever
\* made and none of the four validation files is ever written; a run that
\* returns 0 has inserted all N points, solved once and written the other
\* output files; and a run on a readable table of at least 3 columns with a
\* positive resolution ends with exit status 0.
C5_EmptyCheckpointRun ==
    chkpts_ratio = 0 =>
        /\ Partitioned => N_chk_pts = 0 /\ N_insert_pts = N
        /\ dem_map.queries = <<>>
        /\ files \cap ValidationFiles = {}
        /\ residuals_NN_stats = <<>> /\ residuals_Bi_stats = <<>>
        /\ pc = "return_0" =>
              /\ Len(dem_map.readings) = N
              /\ dem_map.updates = 1
              /\ files = OtherFiles
        /\ (in_file.exists /\ in_file.cols >= 3 /\ RESOLUTION > 0)
              => pc # "return_1"

C5_Witness ==
    /\ chkpts_ratio = 0
    /\ pc = "return_0"
    /\ N = 2
    /\ files = OtherFiles

\* C8: after the bounding-box stage every loaded point has
\* minx <= x <= maxx and miny <= y <= maxy, with minx = min(x) - 10,
\* maxx = max(x) + 10 (likewise y), so maxx > minx and maxy > miny; minz and
\* maxz come from the points with |z| < 1e6 only; and every (x, y) passed to
\* insertIndividualReading or predictMeasurement lies in the extent the
\* grid was resized to, which is that box.
C8_BoundingBox ==
    BBoxDone =>
        LET X == { raw_xyz[j].x : j \in 1..N }
            Y == { raw_xyz[j].y : j \in 1..N }
            Z == { raw_xyz[j].z : j \in 1..N }
            ZData == { z \in Z : z > -Z_NODATA /\ z < Z_NODATA }
        IN  /\ N >= 1
            /\ \A j \in 1..N :
                  /\ bbox.minx <= raw_xyz[j].x /\ raw_xyz[j].x <= bbox.maxx
                  /\ bbox.miny <= raw_xyz[j].y /\ raw_xyz[j].y <= bbox.maxy
            /\ bbox.minx = SetMin(X) - 10 /\ bbox.maxx = SetMax(X) + 10
            /\ bbox.miny = SetMin(Y) - 10 /\ bbox.maxy = SetMax(Y) + 10
            /\ bbox.maxx > bbox.minx /\ bbox.maxy > bbox.miny
            /\ bbox.minz = (IF ZData = {} THEN DBL_MAX ELSE SetMin(ZData) - 10)
            /\ bbox.maxz = (IF ZData = {} THEN -DBL_MAX ELSE SetMax(ZData) + 10)
            /\ (dem_map.readings # <<>> \/ dem_map.queries # <<>>) =>
                  /\ dem_map.x_min = bbox.minx /\ dem_map.x_max = bbox.maxx
                  /\ dem_map.y_min = bbox.miny /\ dem_map.y_max = bbox.maxy
            /\ \A j \in 1..Len(dem_map.readings) :
                  /\ dem_map.x_min <= dem_map.readings[j].x
                  /\ dem_map.readings[j].x <= dem_map.x_max
                  /\ dem_map.y_min <= dem_map.readings[j].y
                  /\ dem_map.readings[j].y <= dem_map.y_max
            /\ \A j \in 1..Len(dem_map.queries) :
                  /\ dem_map.x_min <= dem_map.queries[j].x
                  /\ dem_map.queries[j].x <= dem_map.x_max
                  /\ dem_map.y_min <= dem_map.queries[j].y
                  /\ dem_map.queries[j].y <= dem_map.y_max

C8_Witness ==
    /\ pc = "return_0"
    /\ N = 3
    /\ bbox.minx = -13 /\ bbox.maxx = 15
    /\ bbox.minz = -17 /\ bbox.maxz = 12
    /\ \E j \in 1..N : raw_xyz[j].z = -1000000
    /\ dem_map.readings # <<>>
    /\ dem_map.queries # <<>>

\* C9 as claimed: on a readable table of at least 3 columns, whenever the
\* ratio is outside [0,1] or the resolution is not positive, nothing is ever
\* loaded, scanned, shuffled, inserted, solved or written, and the run does
\* not return 0.
C9_AsClaimed ==
    ( /\ in_file.exists /\ in_file.cols >= 3
      /\ (~(chkpts_ratio >= 0 /\ chkpts_ratio <= RatioDen) \/ RESOLUTION <= 0) ) =>
        /\ raw_xyz = <<>>
        /\ bbox = NoBBox
        /\ pts_indices = <<>>
        /\ dem_map.readings = <<>>
        /\ dem_map.updates = 0
        /\ files = {}
        /\ pc # "return_0"

\* C9 amended: a ratio outside [0,1] aborts the run with exit status 1
\* before the index list is built or shuffled, before the estimator is
\* built, any insertion, the solve and any output file, but only after the
\* table has been loaded and the bounding box scanned.
C9_RatioRejectedBeforePartition ==
    ~(chkpts_ratio >= 0 /\ chkpts_ratio <= RatioDen) =>
        /\ pts_indices = <<>>
        /\ N_chk_pts = 0 /\ N_insert_pts = 0
        /\ ~dem_map.built
        /\ dem_map.readings = <<>>
        /\ dem_map.updates = 0
        /\ dem_map.queries = <<>>
        /\ files = {}
        /\ pc \in { "load", "bbox_init", "bbox_scan", "check_ratio", "return_1" }
        /\ (pc = "return_1" /\ in_file.exists /\ in_file.cols >= 3) =>
              /\ raw_xyz = in_file.rows
              /\ bbox # NoBBox
              /\ k = N

C9_Witness ==
    /\ pc = "return_1"
    /\ chkpts_ratio = RatioDen + 1
    /\ RESOLUTION > 0
    /\ N = 2
    /\ bbox # NoBBox

\* C10: during stage [7] iteration k has made queries 2k+1 (nearest) and
\* 2k+2 (bilinear), both at the (x, y) of row pts_indices[k + N - Nchk];
\* after it, with Nchk > 0, both residual vectors have Nchk entries and
\* entry k of each is that row's z minus the z answered to its query.
C10_ResidualsPerCheckpoint ==
    /\ pc = "eval" => Len(dem_map.queries) = 2 * k
    /\ ValidationDone /\ Partitioned /\ N_chk_pts = 0 => dem_map.queries = <<>>
    /\ (pc = "stats" \/ (ValidationDone /\ N_chk_pts > 0)) =>
          /\ N_chk_pts > 0
          /\ Len(residuals_NN) = N_chk_pts
          /\ Len(residuals_Bi) = N_chk_pts
          /\ Len(dem_map.queries) = 2 * N_chk_pts
          /\ \A kk \in 0..(N_chk_pts - 1) :
                LET pt   == raw_xyz[pts_indices[kk + (N - N_chk_pts) + 1] + 1]
                    q_NN == dem_map.queries[2 * kk + 1]
                    q_Bi == dem_map.queries[2 * kk + 2]
                IN  /\ q_NN.policy = "gimNearest"
                    /\ q_Bi.policy = "gimBilinear"
                    /\ q_NN.x = pt.x /\ q_NN.y = pt.y
                    /\ q_Bi.x = pt.x /\ q_Bi.y = pt.y
                    /\ q_NN.row = q_Bi.row
                    /\ residuals_NN[kk + 1] = pt.z - q_NN.z
                    /\ residuals_Bi[kk + 1] = pt.z - q_Bi.z

C10_Witness ==
    /\ pc = "return_0"
    /\ N = 3
    /\ N_chk_pts = 2
    /\ Len(residuals_NN) = 2
    /\ residuals_NN[1] # residuals_Bi[1]
    /\ residuals_NN[1] # residuals_NN[2]

(* =================== properties of do_residuals_stats ================= *)
RECURSIVE InsertSorted(_, _)
InsertSorted(v, e) ==
    IF v = <<>> THEN << e >>
    ELSE IF e <= Head(v) THEN << e >> \o v
    ELSE << Head(v) >> \o InsertSorted(Tail(v), e)

RECURSIVE SortAsc(_)
SortAsc(v) == IF v = <<>> THEN <<>> ELSE InsertSorted(SortAsc(Tail(v)), Head(v))

C6_MedianOnReturn ==
    (pc = "stats_returned" /\ Len(r) > 0) =>
        /\ Len(stats) = 6
        /\ stats[6] = Num(SortAsc(r)[(Len(r) \div 2) + 1])
        /\ r = << 5, 1, 3 >> => stats[6] = Num(3)
        /\ r = << 4, 1, 3, 2 >> => stats[6] = Num(3)

\* C6: for a non-empty r the median returned in stats[5] is the element at
\* position floor(N/2) of r sorted ascending (3 for [5,1,3] and the upper
\* median 3 for [4,1,3,2]), and the call leaves r unchanged.
C6_UpperMedian == [] C6_MedianOnReturn /\ [][r' = r]_vars

C6_Witness ==
    /\ pc = "stats_returned"
    /\ r = << 4, 1, 3, 2 >>
    /\ stats[6] = Num(3)
    /\ stats[1] = Num(4)

\* C7: called on an empty r, do_residuals_stats returns 6 entries that are
\* all zero, whatever stats held before the call.
C7_EmptyGivesZeros ==
    (pc = "stats_returned" /\ Len(r) = 0) =>
        /\ Len(stats) = 6
        /\ \A j \in 1..6 : stats[j] = Num(0)
====
